---- MODULE Spec2Model ----
(***************************************************************************)
(* Model of scripts/convert_to_markdown.py: find_files, file_language_for, *)
(* write_markdown and main, run against a small POSIX file system.         *)
(*                                                                         *)
(* Strings (paths, file contents, written text) are sequences of           *)
(* one-character strings, so that str.lower(), sorting by code point,      *)
(* decoding, rstrip() and splitlines() are computed as Python computes     *)
(* them.  One byte that is not valid UTF-8 is written "0xFF".              *)
(***************************************************************************)
EXTENDS Integers, Sequences, FiniteSets, TLC

\* ------------------------------------------------------------------ bounds
\* longest varied file content, in bytes
MaxLen == 2
\* how many files the environment may delete while the program runs
MaxDeletes == 1

\* ------------------------------------------------------- characters, str
Lowers == <<"a","b","c","d","e","f","g","h","i","j","k","l","m",
            "n","o","p","q","r","s","t","u","v","w","x","y","z">>
Uppers == <<"A","B","C","D","E","F","G","H","I","J","K","L","M",
            "N","O","P","Q","R","S","T","U","V","W","X","Y","Z">>
Digits == <<"0","1","2","3","4","5","6","7","8","9">>

IsUpper(c) == \E i \in 1..26 : Uppers[i] = c
IsLower(c) == \E i \in 1..26 : Lowers[i] = c

\* code point of the characters that occur in the modelled paths
Ord(c) ==
    IF IsLower(c) THEN 96 + (CHOOSE i \in 1..26 : Lowers[i] = c)
    ELSE IF IsUpper(c) THEN 64 + (CHOOSE i \in 1..26 : Uppers[i] = c)
    ELSE IF c = "." THEN 46
    ELSE IF c = "/" THEN 47
    ELSE 95

\* str.lower() on one character / on a string
LowerChar(c) == IF IsUpper(c) THEN Lowers[CHOOSE i \in 1..26 : Uppers[i] = c] ELSE c
StrLower(s) == [i \in 1..Len(s) |-> LowerChar(s[i])]

\* Python's < on str: lexicographic by code point
StrLess(s, t) ==
    \E k \in 1..(Len(t)) :
        /\ k <= Len(s) + 1
        /\ \A j \in 1..(k-1) : s[j] = t[j]
        /\ (k = Len(s) + 1 \/ Ord(s[k]) < Ord(t[k]))

Front(s) == SubSeq(s, 1, Len(s) - 1)
EndsWith(s, suf) ==
    /\ Len(s) >= Len(suf)
    /\ SubSeq(s, Len(s) - Len(suf) + 1, Len(s)) = suf
StartsWith(s, pre) ==
    /\ Len(s) >= Len(pre)
    /\ SubSeq(s, 1, Len(pre)) = pre
LastIndexOf(s, c) ==
    IF \E i \in 1..Len(s) : s[i] = c
    THEN CHOOSE i \in 1..Len(s) : s[i] = c /\ \A j \in (i+1)..Len(s) : s[j] # c
    ELSE 0

RECURSIVE Decimal(_)
\* str(int) for a non-negative int
Decimal(n) == IF n < 10 THEN <<Digits[n + 1]>>
              ELSE Decimal(n \div 10) \o <<Digits[(n % 10) + 1]>>

RECURSIVE Flatten(_)
Flatten(chunks) == IF chunks = <<>> THEN <<>>
                   ELSE Head(chunks) \o Flatten(Tail(chunks))

\* ----------------------------------------------------------------- paths
Cwd        == <<"/","c">>
OtherRoot  == <<"/","o">>
DotRoot    == <<".">>
Roots      == {Cwd, OtherRoot, DotRoot}

WORKER        == <<"w","o","r","k","e","r">>
SRC           == <<"s","r","c">>
WRANGLER_TOML == <<"w","r","a","n","g","l","e","r",".","t","o","m","l">>
VITEST_CONFIG == <<"v","i","t","e","s","t",".","c","o","n","f","i","g",".","t","s">>
WORKER_SOURCES_MD ==
    <<"w","o","r","k","e","r","_","s","o","u","r","c","e","s",".","m","d">>

\* pathlib's "/" on already normalised paths: Path(".") / x is x
Join(p, name) == IF p = DotRoot THEN name ELSE p \o <<"/">> \o name
\* Path.name: the last component
Name(p) == SubSeq(p, LastIndexOf(p, "/") + 1, Len(p))
\* Path.suffix: from the last dot of the name, "" for none / leading / trailing dot
Suffix(p) ==
    LET n == Name(p)
        i == LastIndexOf(n, ".")
    IN IF i > 1 /\ i < Len(n) THEN SubSeq(n, i, Len(n)) ELSE <<>>
IsAbsolute(p) == p # <<>> /\ p[1] = "/"
\* the file a path names when the process runs in Cwd
Resolve(p) == IF IsAbsolute(p) THEN p ELSE IF p = DotRoot THEN Cwd ELSE Join(Cwd, p)

\* names below worker/src that the modelled trees may hold
SrcNames == { <<"a",".","t","s">>,
              <<"A",".","t","s">>,
              <<"b",".","d",".","t","s">>,
              <<"d","/","c",".","t","s","x">> }
TopNames == { WRANGLER_TOML, VITEST_CONFIG }
WorkerSrc(r) == Join(Join(r, WORKER), SRC)
DefaultOutput == Join(Cwd, WORKER_SOURCES_MD)

AbsRoots == {Cwd, OtherRoot}
AbsUniverse ==
    {DefaultOutput}
    \cup {WorkerSrc(r) : r \in AbsRoots}
    \cup {Join(WorkerSrc(r), n) : r \in AbsRoots, n \in SrcNames}
    \cup {Join(r, n) : r \in AbsRoots, n \in TopNames}

\* --------------------------------------------------------- file contents
BAD   == "0xFF"
\* the backquote character U+0060, which a string literal here cannot hold
BQ    == "0x60"
Bytes == {"a", " ", "\n", "\r", BAD}
RECURSIVE SeqsUpTo(_, _)
SeqsUpTo(S, n) == IF n = 0 THEN {<<>>}
                  ELSE LET shorter == SeqsUpTo(S, n - 1)
                       IN shorter \cup {Append(s, x) : s \in {t \in shorter : Len(t) = n - 1}, x \in S}
Contents == SeqsUpTo(Bytes, MaxLen)
GoodData == <<"a", "\n">>
BadData  == <<BAD>>
OldData  == <<"o","l","d","\n">>

NoEntry     == [kind |-> "none", data |-> <<>>]
DirEntry    == [kind |-> "dir",  data |-> <<>>]
FileEntry(d) == [kind |-> "file", data |-> d]


\* ------------------------------------------------------------------ state
VARIABLES
    fs,       \* the file system: absolute path -> entry
    root,     \* args.root
    output,   \* args.output
    entry,    \* "main": the command line; "direct": a caller of the two functions
    skip,     \* skip_dot_types handed to find_files
    now,      \* the clock read by datetime.utcnow()
    run,      \* "first" or "second" invocation on the same file system
    pc,       \* position in main / write_markdown
    files,    \* the Inclusion Set returned by find_files
    idx,      \* position of the for loop in files
    text,     \* text of the file just read
    out,      \* strings written to the output handle, one per out.write call
    stdout,   \* completion messages printed
    stderr,   \* diagnostics printed
    ret,      \* return value of main ("none" until it returns)
    exc,      \* exception that left write_markdown ("none" if none)
    reads,    \* log of path.read_text calls: path, bytes found, outcome
    deletes,  \* files deleted by the environment so far
    prev      \* what the first invocation produced

vars == <<fs, root, output, entry, skip, now, run, pc, files, idx, text,
          out, stdout, stderr, ret, exc, reads, deletes, prev>>

\* Path.exists() / Path.is_dir()
Exists(p) == fs[Resolve(p)].kind # "none"
IsDir(p)  == fs[Resolve(p)].kind = "dir"

\* ------------------------------------------------------------- find_files
\* worker_dir.glob("**/*.ts") / ("**/*.tsx"): the scanned names that match
GlobTs(sc)  == SelectSeq(sc, LAMBDA n : EndsWith(Name(n), <<".","t","s">>))
GlobTsx(sc) == SelectSeq(sc, LAMBDA n : EndsWith(Name(n), <<".","t","s","x">>))

\* a filter that drops every TypeScript file instead of declarations only
IsDotTypes_AnyTs(p) == EndsWith(Name(p), <<".","t","s">>)
\* p.name.endswith(".d.ts")
IsDotTypes(p) == EndsWith(Name(p), <<".","d",".","t","s">>)

\* key=lambda p: str(p).lower()
SortKey(p) == StrLower(p)

RECURSIVE Sorted(_)
\* sorted(files, key=...): stable, ascending by key
Sorted(s) ==
    IF s = <<>> THEN <<>>
    ELSE LET rest == Sorted(Front(s))
             x    == s[Len(s)]
             k    == Cardinality({i \in 1..Len(rest) : ~StrLess(SortKey(x), SortKey(rest[i]))})
         IN SubSeq(rest, 1, k) \o <<x>> \o SubSeq(rest, k + 1, Len(rest))

\* a find_files that gives up when worker/src is missing
find_files_EarlyReturn(r, skip_dot_types, sc) ==
    LET worker_dir == WorkerSrc(r)
        matched == GlobTs(sc) \o GlobTsx(sc)
        globbed == [i \in 1..Len(matched) |-> Join(worker_dir, matched[i])]
        kept   == SelectSeq(globbed, LAMBDA p : ~(skip_dot_types /\ IsDotTypes(p)))
        extras == SelectSeq(<<Join(r, WRANGLER_TOML), Join(r, VITEST_CONFIG)>>,
                            LAMBDA p : Exists(p))
    IN IF Exists(worker_dir) /\ IsDir(worker_dir) THEN Sorted(kept \o extras) ELSE <<>>

find_files(r, skip_dot_types, sc) ==
    LET worker_dir == WorkerSrc(r)
        matched == GlobTs(sc) \o GlobTsx(sc)
        globbed == IF Exists(worker_dir) /\ IsDir(worker_dir)
                   THEN [i \in 1..Len(matched) |-> Join(worker_dir, matched[i])]
                   ELSE <<>>
        kept   == SelectSeq(globbed, LAMBDA p : ~(skip_dot_types /\ IsDotTypes(p)))
        extras == SelectSeq(<<Join(r, WRANGLER_TOML), Join(r, VITEST_CONFIG)>>,
                            LAMBDA p : Exists(p))
    IN Sorted(kept \o extras)

\* the orders in which scanning worker/src may yield what is below it
Perms(S) == {s \in [1..Cardinality(S) -> S] : \A i, j \in 1..Cardinality(S) : i # j => s[i] # s[j]}
ScanOrders(r) ==
    Perms({n \in SrcNames : fs[Resolve(Join(WorkerSrc(r), n))].kind = "file"})

\* ------------------------------------------------------ file_language_for
file_language_for(p) ==
    LET suffix == StrLower(Suffix(p))
    IN IF suffix = <<".","t","o","m","l">> THEN <<"t","o","m","l">>
       ELSE IF suffix \in {<<".","t","s">>, <<".","t","s","x">>} THEN <<"t","s">>
       ELSE <<"t","e","x","t">>

\* ------------------------------------------------- reading and formatting
\* a decoder that replaces undecodable bytes instead of raising
Decodes_Lenient(b) == TRUE
\* bytes.decode("utf-8") succeeds
Decodes(b) == \A i \in 1..Len(b) : b[i] # BAD

RECURSIVE UniversalNewlines(_)
\* text mode with newline=None: "\r\n" and "\r" are read as "\n"
UniversalNewlines(b) ==
    IF b = <<>> THEN <<>>
    ELSE IF b[1] = "\r"
         THEN IF Len(b) >= 2 /\ b[2] = "\n"
              THEN <<"\n">> \o UniversalNewlines(SubSeq(b, 3, Len(b)))
              ELSE <<"\n">> \o UniversalNewlines(Tail(b))
         ELSE <<b[1]>> \o UniversalNewlines(Tail(b))

\* Path.read_text(encoding="utf-8") on decodable bytes
read_text(b) == UniversalNewlines(b)

IsSpace(c) == c \in {" ", "\n", "\r", "\t"}

RECURSIVE rstrip(_)
rstrip(t) == IF t # <<>> /\ IsSpace(t[Len(t)]) THEN rstrip(Front(t)) ELSE t

\* len(text.splitlines())
SplitLinesCount(t) ==
    LET breaks == {i \in 1..Len(t) :
                      \/ t[i] = "\n"
                      \/ (t[i] = "\r" /\ ~(i < Len(t) /\ t[i + 1] = "\n"))}
        tail   == IF t # <<>> /\ ~(t[Len(t)] \in {"\n", "\r"}) THEN 1 ELSE 0
    IN Cardinality(breaks) + tail

\* path.relative_to(Path.cwd()) is purely lexical and raises ValueError
\* unless the path lies under the absolute working directory
CanRelativize(p) == p = Cwd \/ StartsWith(p, Cwd \o <<"/">>)
relative_to(p)   == IF p = Cwd THEN DotRoot ELSE SubSeq(p, Len(Cwd) + 2, Len(p))

\* rel = path.relative_to(Path.cwd()) if path.exists() else path
DisplayRaisesValueError(p) == Exists(p) /\ ~CanRelativize(p)
DisplayPath(p) == IF Exists(p) THEN relative_to(p) ELSE p

Header(ts) ==
    <<"#"," ","C","o","m","b","i","n","e","d"," ","s","o","u","r","c","e"," ",
      "f","i","l","e","s","\n","\n","G","e","n","e","r","a","t","e","d",":"," ">>
    \o ts \o <<"Z","\n","\n">>

\* a fenced text that forgets the final newline
FencedBody_NoNewline(t) == rstrip(t)
\* the fenced text: text.rstrip() + "\n"
FencedBody(t) == rstrip(t) \o <<"\n">>

\* the six out.write calls for one file
Section(p, t) ==
    << <<"-","-","-","\n","\n">>,
       <<"#","#"," ",BQ>> \o DisplayPath(p) \o <<BQ,"\n","\n">>,
       <<"_","S","i","z","e",":"," ">> \o Decimal(SplitLinesCount(t))
            \o <<" ","l","i","n","e","s","_"," "," ","\n","\n">>,
       <<BQ,BQ,BQ>> \o file_language_for(p) \o <<"\n">>,
       FencedBody(t),
       <<BQ,BQ,BQ,"\n","\n">> >>

\* the handle is closed: what was written reaches the file if it is still
\* linked at the output path (text mode on POSIX writes "\n" as "\n")
Closed(f) ==
    LET o == Resolve(output)
    IN IF f[o].kind = "file" THEN [f EXCEPT ![o] = FileEntry(Flatten(out))] ELSE f

\* len(list(files)) after the loop: a list is counted again, a one-shot
\* iterator has only what the loop left in it
RemainingCount == IF entry = "main" THEN Len(files) ELSE Len(files) - (idx - 1)


\* ------------------------------------------------------------------- Init
\* a file system holding one project below the root r; everything else absent
PlaceFs(r, rootEntry, dirEntry, srcEntry, topEntry, outEntry) ==
    LET R == Resolve(r)
    IN [p \in AbsUniverse \cup AbsRoots |->
          IF p = Cwd THEN DirEntry
          ELSE IF p = R THEN rootEntry
          ELSE IF p = DefaultOutput THEN outEntry
          ELSE IF p = WorkerSrc(R) THEN dirEntry
          ELSE IF \E n \in SrcNames : p = Join(WorkerSrc(R), n)
               THEN srcEntry[CHOOSE n \in SrcNames : p = Join(WorkerSrc(R), n)]
          ELSE IF \E n \in TopNames : p = Join(R, n)
               THEN topEntry[CHOOSE n \in TopNames : p = Join(R, n)]
          ELSE NoEntry]

\* every shape of tree, each file holding the same small decodable text
TreeFs(r, outEntry) ==
    { PlaceFs(r, rootEntry, dirEntry,
              [n \in SrcNames |-> IF n \in S THEN FileEntry(GoodData) ELSE NoEntry],
              [n \in TopNames |-> IF n \in T THEN FileEntry(GoodData) ELSE NoEntry],
              outEntry) :
        S \in SUBSET SrcNames, T \in SUBSET TopNames,
        dirEntry \in {DirEntry, NoEntry, FileEntry(GoodData)},
        rootEntry \in {DirEntry, NoEntry} }

\* one or two files, wrangler.toml holding every content up to MaxLen bytes
TextFs(r, outEntry) ==
    { PlaceFs(r, DirEntry, DirEntry,
              [n \in SrcNames |-> IF n = <<"a",".","t","s">> THEN aEntry ELSE NoEntry],
              [n \in TopNames |-> IF n = WRANGLER_TOML THEN FileEntry(c) ELSE NoEntry],
              outEntry) :
        c \in Contents,
        aEntry \in {NoEntry, FileEntry(GoodData), FileEntry(BadData)} }

\* a directory holds what is below it: no entry under an absent directory
WellFormed(f, r) ==
    LET R == Resolve(r)
        below == {Join(WorkerSrc(R), n) : n \in SrcNames}
        top   == {Join(R, n) : n \in TopNames}
    IN /\ (\E p \in below : f[p].kind # "none") => f[WorkerSrc(R)].kind = "dir"
       /\ (\E p \in below \cup top \cup {WorkerSrc(R)} : f[p].kind # "none")
             => f[R].kind = "dir"
       /\ f[Cwd].kind = "dir"

Init ==
    /\ root \in Roots
    /\ entry \in {"main", "direct"}
    /\ skip \in BOOLEAN
    \* argparse: action="store_true", default=True -- True with or without the flag
    /\ entry = "main" => skip = TRUE
    /\ \E o \in { [path |-> DefaultOutput, pre |-> NoEntry],
                  [path |-> DefaultOutput, pre |-> FileEntry(OldData)],
                  [path |-> Join(root, WRANGLER_TOML), pre |-> NoEntry] } :
          /\ output = o.path
          /\ fs \in {f \in TreeFs(root, o.pre) \cup TextFs(root, o.pre) : WellFormed(f, root)}
    /\ now = 1
    /\ run = "first"
    /\ pc = "start"
    /\ files = <<>>
    /\ idx = 1
    /\ text = <<>>
    /\ out = <<>>
    /\ stdout = <<>>
    /\ stderr = <<>>
    /\ ret = -1
    /\ exc = "none"
    /\ reads = <<>>
    /\ deletes = 0
    /\ prev = [files |-> <<>>, out |-> <<>>, ret |-> -1, exc |-> "none", reads |-> <<>>]

\* ---------------------------------------------------------------- actions
\* a main without the empty check
NoFilesFound_Never(found) == FALSE
\* main, line 91: if not files
NoFilesFound(found) == found = <<>>

\* main, lines 88-93: parse the arguments, call find_files, return 2 on an
\* empty result.  A direct caller hands the result to write_markdown as a
\* one-shot iterator, whatever its length.
Find ==
    /\ pc = "start"
    /\ \E sc \in ScanOrders(root) :
          LET found == find_files(root, skip, sc)
          IN /\ files' = found
             /\ IF entry = "main" /\ NoFilesFound(found)
                THEN /\ stderr' = Append(stderr, [kind |-> "error", path |-> <<>>])
                     /\ ret' = 2
                     /\ pc' = "done"
                ELSE /\ pc' = "open"
                     /\ UNCHANGED <<stderr, ret>>
    /\ UNCHANGED <<fs, root, output, entry, skip, now, run, idx, text, out,
                   stdout, exc, reads, deletes, prev>>

\* Path.parent of the output path, resolved
OutputParent == LET o == Resolve(output) IN SubSeq(o, 1, LastIndexOf(o, "/") - 1)

\* write_markdown, lines 59-61: build the header, open the output path for
\* writing (creating or truncating it) and write the header to the handle
Open ==
    /\ pc = "open"
    /\ IF fs[OutputParent].kind # "dir"
       THEN /\ exc' = "FileNotFoundError"
            /\ pc' = "done"
            /\ UNCHANGED <<fs, out>>
       ELSE /\ fs' = [fs EXCEPT ![Resolve(output)] = FileEntry(<<>>)]
            /\ out' = <<Header(Decimal(now))>>
            /\ pc' = "loop"
            /\ UNCHANGED exc
    /\ UNCHANGED <<root, output, entry, skip, now, run, files, idx, text,
                   stdout, stderr, ret, reads, deletes, prev>>

\* write_markdown, lines 62-67: read the next file; only UnicodeDecodeError
\* is caught, any other error leaves the with block and the function
Read ==
    /\ pc = "loop"
    /\ idx <= Len(files)
    /\ LET path == files[idx]
           e    == fs[Resolve(path)]
       IN IF e.kind # "file"
          THEN /\ reads' = Append(reads, [path |-> path, data |-> <<>>, result |-> "FileNotFoundError"])
               /\ exc' = "FileNotFoundError"
               /\ fs' = Closed(fs)
               /\ pc' = "done"
               /\ UNCHANGED <<idx, text, stderr>>
          ELSE IF ~Decodes(e.data)
          THEN /\ reads' = Append(reads, [path |-> path, data |-> e.data, result |-> "UnicodeDecodeError"])
               /\ stderr' = Append(stderr, [kind |-> "warning", path |-> path])
               /\ idx' = idx + 1
               /\ UNCHANGED <<fs, pc, text, exc>>
          ELSE /\ reads' = Append(reads, [path |-> path, data |-> e.data, result |-> "ok"])
               /\ text' = read_text(e.data)
               /\ pc' = "emit"
               /\ UNCHANGED <<fs, idx, stderr, exc>>
    /\ UNCHANGED <<root, output, entry, skip, now, run, files, out,
                   stdout, ret, deletes, prev>>

\* write_markdown, lines 69-77: compute the display path and write the section
Emit ==
    /\ pc = "emit"
    /\ LET path == files[idx]
       IN IF DisplayRaisesValueError(path)
          THEN /\ exc' = "ValueError"
               /\ fs' = Closed(fs)
               /\ pc' = "done"
               /\ UNCHANGED <<out, idx, text>>
          ELSE /\ out' = out \o Section(path, text)
               /\ idx' = idx + 1
               /\ text' = <<>>
               /\ pc' = "loop"
               /\ UNCHANGED <<fs, exc>>
    /\ UNCHANGED <<root, output, entry, skip, now, run, files,
                   stdout, stderr, ret, reads, deletes, prev>>

\* write_markdown, line 79 and main, lines 95-96: the loop is over, the with
\* block closes the handle, the completion message is printed, main returns 0
Finish ==
    /\ pc = "loop"
    /\ idx > Len(files)
    /\ fs' = Closed(fs)
    /\ stdout' = Append(stdout, [path |-> output, count |-> RemainingCount])
    /\ ret' = IF entry = "main" THEN 0 ELSE ret
    /\ pc' = "done"
    /\ UNCHANGED <<root, output, entry, skip, now, run, files, idx, text,
                   out, stderr, exc, reads, deletes, prev>>

\* the environment: another process deletes a file of the project while the
\* program is between discovery and the end of the run
EnvDelete ==
    /\ pc \in {"open", "loop", "emit"}
    /\ deletes < MaxDeletes
    /\ \E n \in SrcNames \cup TopNames :
          LET p == IF n \in SrcNames THEN Join(WorkerSrc(Resolve(root)), n)
                   ELSE Join(Resolve(root), n)
          IN /\ fs[p].kind = "file"
             /\ fs' = [fs EXCEPT ![p] = NoEntry]
    /\ deletes' = deletes + 1
    /\ UNCHANGED <<root, output, entry, skip, now, run, pc, files, idx,
                   text, out, stdout, stderr, ret, exc, reads, prev>>

\* lines 99-100: the script is invoked again with the same arguments, later
Rerun ==
    /\ pc = "done"
    /\ entry = "main"
    /\ run = "first"
    /\ run' = "second"
    /\ now' = now + 1
    /\ prev' = [files |-> files, out |-> out, ret |-> ret, exc |-> exc, reads |-> reads]
    /\ pc' = "start"
    /\ files' = <<>>
    /\ idx' = 1
    /\ text' = <<>>
    /\ out' = <<>>
    /\ stdout' = <<>>
    /\ stderr' = <<>>
    /\ ret' = -1
    /\ exc' = "none"
    /\ reads' = <<>>
    /\ UNCHANGED <<fs, root, output, entry, skip, deletes>>

Next == Find \/ Open \/ Read \/ Emit \/ Finish \/ EnvDelete \/ Rerun

Spec == Init /\ [][Next]_vars


\* ------------------------------------------------------------- properties
Range(q) == {q[i] : i \in 1..Len(q)}
HasBadByte(d) == \E k \in 1..Len(d) : d[k] = BAD
\* the reads whose bytes are valid UTF-8, in the order they were made
DecodableReads == SelectSeq(reads, LAMBDA rd : rd.result # "FileNotFoundError" /\ ~HasBadByte(rd.data))
\* write_markdown ran to its last line in this invocation
Completed == pc = "done" /\ exc = "none" /\ stdout # <<>>

\* C1: when find_files returns the empty list, main returns 2 and the file
\* system is left as it was: the output path is neither created nor changed.
C1_EmptyResultExits2 ==
    [][(pc = "start" /\ entry = "main" /\ files' = <<>>)
         => (ret' = 2 /\ pc' = "done" /\ out' = <<>> /\ fs' = fs)]_vars

C1_Witness ==
    /\ entry = "main" /\ pc = "done" /\ ret = 2 /\ files = <<>>
    /\ output = DefaultOutput
    /\ fs[DefaultOutput] = FileEntry(OldData)

\* C2: a read that fails for one file of the Inclusion Set does not abort
\* the run: the error of that read is not the exception that ends
\* write_markdown, and the loop goes on to the files after it.
C2_ReadFailureIsolated ==
    \A i \in 1..Len(reads) :
        reads[i].result # "ok" => (exc # reads[i].result /\ idx > i)

\* C3: once write_markdown has completed, every file of the Inclusion Set was
\* read in order, and the document is the header followed by exactly one
\* section (six writes) per file whose bytes decode, in that order; a file
\* that does not decode leaves only a warning on the error stream.
C3_OneSectionPerDecodableFile ==
    Completed =>
        /\ Len(reads) = Len(files)
        /\ \A i \in 1..Len(files) : reads[i].path = files[i]
        /\ out[1] = Header(Decimal(now))
        /\ Len(out) = 1 + 6 * Len(DecodableReads)
        /\ \A j \in 1..Len(DecodableReads) :
              LET rd == DecodableReads[j]
                  b  == 6 * (j - 1) + 1
              IN /\ out[b + 1] = <<"-","-","-","\n","\n">>
                 /\ out[b + 2] \in { <<"#","#"," ",BQ>> \o d \o <<BQ,"\n","\n">> :
                                       d \in {rd.path, SubSeq(rd.path, Len(Cwd) + 2, Len(rd.path))} }
                 /\ out[b + 5] = rstrip(UniversalNewlines(rd.data)) \o <<"\n">>
                 /\ out[b + 6] = <<BQ,BQ,BQ,"\n","\n">>
        /\ Len(stderr) = Len(reads) - Len(DecodableReads)
        /\ \A w \in 1..Len(stderr) : stderr[w].kind = "warning"
        /\ fs[Resolve(output)].kind = "file" => fs[Resolve(output)].data = Flatten(out)

C3_Witness ==
    /\ Completed
    /\ \E i, j \in 1..Len(reads) :
          /\ i < j
          /\ reads[i].result = "UnicodeDecodeError"
          /\ reads[j].result = "ok"
    /\ Len(out) = 7
    /\ Len(stderr) = 1

\* C4: the sequence find_files returns is strictly ascending by lowercased
\* path: no two entries share a lowercased path.
C4_StrictlyAscending ==
    pc # "start" =>
        \A i \in 1..(Len(files) - 1) : StrLess(StrLower(files[i]), StrLower(files[i + 1]))

\* a declaration file found by the recursive scan of worker/src
IsDeclUnderWorkerSrc(p) ==
    /\ StartsWith(p, WorkerSrc(root) \o <<"/">>)
    /\ EndsWith(p, <<".","d",".","t","s">>)

\* C5: for every tree and scan order, find_files with the flag true is
\* find_files with the flag false minus the declaration files under
\* worker/src; such a file is present without the flag and absent with it;
\* the allow-listed top-level files are in both results.
C5_SkipFlagOnlyDropsDeclarations ==
    /\ pc = "start" =>
          \A sc \in ScanOrders(root) :
            \A t \in {find_files(root, TRUE, sc)}, f \in {find_files(root, FALSE, sc)} :
               /\ t = SelectSeq(f, LAMBDA p : ~IsDeclUnderWorkerSrc(p))
               /\ \A n \in {m \in SrcNames : EndsWith(m, <<".","d",".","t","s">>)} :
                     Exists(Join(WorkerSrc(root), n))
                        => /\ Join(WorkerSrc(root), n) \in Range(f)
                           /\ Join(WorkerSrc(root), n) \notin Range(t)
               /\ \A n \in TopNames :
                     Exists(Join(root, n))
                        => /\ Join(root, n) \in Range(f)
                           /\ Join(root, n) \in Range(t)
    \* the call just made: nothing has touched the file system since
    /\ (pc = "open" /\ deletes = 0) =>
          \E sc \in ScanOrders(root) :
               /\ files = find_files(root, skip, sc)
               /\ SelectSeq(files, LAMBDA p : ~IsDeclUnderWorkerSrc(p)) = find_files(root, TRUE, sc)

C5_Witness ==
    /\ entry = "direct" /\ ~skip /\ pc = "open"
    /\ \E i \in 1..Len(files) : IsDeclUnderWorkerSrc(files[i])
    /\ Join(root, WRANGLER_TOML) \in Range(files)
    /\ Len(files) >= 3

\* C6: when worker/src is not a directory under the root (or the root does
\* not exist), find_files raises nothing and returns exactly the allow-listed
\* top-level files that are present, the empty list when there is none.
C6_NoWorkerSrcOnlyTopLevel ==
    [][(pc = "start" /\ fs[Resolve(WorkerSrc(root))].kind # "dir") =>
          /\ Range(files') = {Join(root, n) : n \in {m \in TopNames : Exists(Join(root, m))}}
          /\ Len(files') = Cardinality({m \in TopNames : Exists(Join(root, m))})
          /\ exc' = "none"
          /\ pc' \in {"open", "done"}]_vars

C6_Witness ==
    /\ pc = "open"
    /\ fs[Resolve(WorkerSrc(root))].kind = "file"
    /\ Len(files) = 2

\* the j-th successful read whose section has been written, and its body
SectionWritten(j) == 6 * (j - 1) + 7 <= Len(out)
BodyOf(j) == out[6 * (j - 1) + 6]
\* the last line of the bytes is blank: after dropping one final line
\* terminator, what follows the last line break is empty or only spaces
HasTrailingBlankLine(d) ==
    LET core == IF EndsWith(d, <<"\r","\n">>) THEN SubSeq(d, 1, Len(d) - 2)
                ELSE IF d # <<>> /\ d[Len(d)] \in {"\n", "\r"} THEN Front(d)
                ELSE d
        brk  == IF LastIndexOf(core, "\n") > LastIndexOf(core, "\r")
                THEN LastIndexOf(core, "\n") ELSE LastIndexOf(core, "\r")
    IN /\ d # <<>>
       /\ \A k \in (brk + 1)..Len(core) : core[k] = " "

\* C7 as stated: for a file without trailing blank lines the fenced text is
\* the file's content followed by exactly one newline.
C7_BodyIsContentPlusNewline ==
    \A j \in 1..Len(DecodableReads) :
        (SectionWritten(j) /\ ~HasTrailingBlankLine(DecodableReads[j].data))
            => BodyOf(j) = DecodableReads[j].data \o <<"\n">>

\* the two invocations had identical inputs and both completed
SameInputsTwice ==
    /\ run = "second" /\ Completed /\ ret = 0
    /\ prev.exc = "none" /\ prev.ret = 0
    /\ files = prev.files /\ reads = prev.reads
    /\ deletes = 0

\* C7 amended: for a file whose content holds no carriage return and does
\* not end in a whitespace character (so has no final newline), the fenced
\* text is the content followed by exactly one newline; for every file it is
\* the decoded content without its trailing whitespace, followed by one
\* newline.  Two runs on identical inputs write the same strings after the
\* header, and headers that differ in the timestamp only.
C7_BodyIsStrippedContentPlusNewline ==
    /\ \A j \in 1..Len(DecodableReads) :
          LET d == DecodableReads[j].data
          IN SectionWritten(j) =>
                /\ ((\A k \in 1..Len(d) : d[k] # "\r") /\ (d = <<>> \/ d[Len(d)] \notin {" ", "\n", "\t"}))
                      => BodyOf(j) = d \o <<"\n">>
                /\ BodyOf(j)[Len(BodyOf(j))] = "\n"
                /\ Len(BodyOf(j)) >= 2 => BodyOf(j)[Len(BodyOf(j)) - 1] \notin {" ", "\n", "\r", "\t"}
                /\ StartsWith(UniversalNewlines(d), Front(BodyOf(j)))
                /\ \A k \in Len(BodyOf(j))..Len(UniversalNewlines(d)) :
                      UniversalNewlines(d)[k] \in {" ", "\n", "\r", "\t"}
    /\ SameInputsTwice =>
          /\ Tail(out) = Tail(prev.out)
          /\ out[1] = Header(Decimal(now))
          /\ prev.out[1] = Header(Decimal(now - 1))

C7_Witness ==
    /\ SameInputsTwice
    /\ Len(out) = 13
    /\ \E j \in 1..Len(DecodableReads) :
          /\ DecodableReads[j].data = <<" ", "a">>
          /\ BodyOf(j) = <<" ", "a", "\n">>

\* C8: computing the display path of a file that was read never fails.
C8_DisplayPathNeverFails == exc # "ValueError"

\* C9: no file read by write_markdown is the path it has open for writing.
C9_NeverReadsOutputPath ==
    \A i \in 1..Len(reads) : Resolve(reads[i].path) # Resolve(output)

\* C10: the completion message names the output path and the number of files
\* of the Inclusion Set that write_markdown was given.
C10_MessageCountsInclusionSet ==
    \A i \in 1..Len(stdout) :
        /\ stdout[i].path = output
        /\ stdout[i].count = Len(files)

====
